---- MODULE Spec2Model ----
(***************************************************************************)
(* Streaming conversation controller of the Freelance Full-Stack AI        *)
(* Assistant: the App component (src/App.tsx) and the chat session         *)
(* service (src/geminiService.ts).                                         *)
(*                                                                         *)
(* Text is a sequence of atoms.  User text is a sequence of characters     *)
(* (" " and "h"); assistant text is a sequence of words, where the word    *)
(* "Error:" is the six-character prefix tested by startsWith("Error:").    *)
(* Concatenation of strings is \o.                                         *)
(*                                                                         *)
(* React state updates are applied at the call of the setter; an await is  *)
(* a suspension point between two actions.  User events are dispatched     *)
(* only to the elements the last render left enabled.                      *)
(***************************************************************************)
EXTENDS Integers, Sequences, FiniteSets, TLC

\* ---- bounds ------------------------------------------------------------
MaxOps == 3        \* asynchronous operations started (init, sends, resets)
MaxChunks == 2     \* chunks one remote stream yields before it ends

\* ---- types.ts ----------------------------------------------------------
User == "user"
AI == "ai"
Null == 0

Msg(r, c) == [role |-> r, content |-> c]

\* ---- fixed texts -------------------------------------------------------
InitGreeting == <<"Hello there!">>
InitErrorText == <<"Oh no!", "couldn't start">>
ClearGreeting == <<"Chat cleared!">>
ClearErrorText == <<"Oh no!", "couldn't reset">>
GenericErrorText == <<"Error:", "Could not get a response.">>
OopsText == <<"Oops!">>
NotFoundPhrase == "Requested entity was not found."

\* what the user types into the input
Texts == {<<>>, <<" ">>, <<"h">>, <<" ", "h", " ">>}

\* what one chunk of the remote stream carries as c.text (<<>>: no text)
ChunkTexts == {<<>>, <<"Hel">>, <<"lo">>}

\* error.message of what the remote call or the stream throws
ErrorMessages == {<<"boom">>, <<"404", NotFoundPhrase>>}

\* ---- pure helpers ------------------------------------------------------
RECURSIVE TrimStart(_)
TrimStart(s) ==
  IF s = <<>> THEN s
  ELSE IF Head(s) = " " THEN TrimStart(Tail(s)) ELSE s

RECURSIVE TrimEnd(_)
TrimEnd(s) ==
  IF s = <<>> THEN s
  ELSE IF s[Len(s)] = " " THEN TrimEnd(SubSeq(s, 1, Len(s) - 1)) ELSE s

\* String.prototype.trim
Trim(s) == TrimEnd(TrimStart(s))

\* lastMessage.content.startsWith("Error:")
StartsWithError(c) == Len(c) > 0 /\ c[1] = "Error:"

\* error.message.includes("Requested entity was not found.")
IsSessionInvalid(m) == \E i \in 1..Len(m) : m[i] = NotFoundPhrase

\* the text handed to onChunkReceived by the catch block of sendMessage
ErrorFragment(m) ==
  IF IsSessionInvalid(m) THEN OopsText ELSE <<"Error:">> \o m

\* the setMessages updater of onChunkReceived, with fullAIResponse = full
FoldChunkOverLast(ms, full) ==
  IF Len(ms) > 0
  THEN SubSeq(ms, 1, Len(ms) - 1) \o <<Msg(AI, full)>>
  ELSE Append(ms, Msg(AI, full))
FoldChunk(ms, full) ==
  IF Len(ms) > 0 /\ ms[Len(ms)].role = AI
  THEN SubSeq(ms, 1, Len(ms) - 1) \o <<Msg(AI, full)>>
  ELSE Append(ms, Msg(AI, full))

\* fullAIResponse += chunk
AccumulateBroken(full, chunk) == chunk
Accumulate(full, chunk) == full \o chunk

\* the setMessages updater of the catch block of handleSendMessage
CatchUpdateSilent(ms) == ms
CatchUpdate(ms) ==
  IF Len(ms) = 0 \/ ms[Len(ms)].role # AI
     \/ ~StartsWithError(ms[Len(ms)].content)
  THEN Append(ms, Msg(AI, GenericErrorText))
  ELSE ms

\* ---- state -------------------------------------------------------------
VARIABLES
  messages,         \* useState<ChatMessage[]>
  input,            \* useState<string>
  isLoading,        \* useState<boolean>
  chatSessionRef,   \* useRef<Chat | null>
  isInitialLoad,    \* useRef(true)
  chatSession,      \* module-level session of geminiService.ts
  tasks,            \* suspended async operations
  nextId,           \* operations started so far
  lastTurn,         \* outcome of the most recent finished turn
  lastSess,         \* session the most recent finished turn was sent on
  ev                \* the step that led to this state

vars == <<messages, input, isLoading, chatSessionRef, isInitialLoad,
          chatSession, tasks, nextId, lastTurn, lastSess, ev>>

NoTask ==
  [id |-> 0, kind |-> "none", pc |-> "none", res |-> "none", sess |-> Null,
   full |-> <<>>, n |-> 0, base |-> 0, frags |-> <<>>, prev |-> "none",
   prevSess |-> Null, out |-> "none"]

Ev(op, ok, created, t) ==
  [op |-> op, ok |-> ok, created |-> created, t |-> t]

Init ==
  /\ messages = <<>>
  /\ input = <<>>
  /\ isLoading = FALSE
  /\ chatSessionRef = Null
  /\ isInitialLoad = TRUE
  /\ chatSession = Null
  /\ tasks = {}
  /\ nextId = 0
  /\ lastTurn = "none"
  /\ lastSess = Null
  /\ ev = Ev("start", TRUE, FALSE, NoTask)

\* ---- geminiService.ts --------------------------------------------------
\* createChatSession: the module-level session after the call; the call
\* either assigns a new session (id) or throws before the assignment.
createChatSession(cur, id, res) == IF res = "ok" THEN id ELSE cur

\* sendMessage up to its first await: throws when no session exists
SendStartPc(cur) == IF cur = Null THEN "threw" ELSE "stream"

\* the session after the catch block of sendMessage
SessionAlwaysDropped(cur, m) == Null
SessionAfterError(cur, m) == IF IsSessionInvalid(m) THEN Null ELSE cur

\* ---- rendered controls -------------------------------------------------
InputDisabled == isLoading
SendDisabled == Trim(input) = <<>> \/ isLoading
NewChatAlwaysEnabled == FALSE
NewChatDisabled == isLoading

\* the user can act once the component is mounted and its effect has run
Mounted == ~isInitialLoad

\* ---- tasks -------------------------------------------------------------
NewTask(kind, pc, res, sess) ==
  [id |-> nextId + 1, kind |-> kind, pc |-> pc, res |-> res, sess |-> sess,
   full |-> <<>>, n |-> 0, base |-> Len(messages), frags |-> <<>>,
   prev |-> lastTurn, prevSess |-> lastSess, out |-> "none"]

Sends == {t \in tasks : t.kind = "send"}

\* ---- initialization (App.tsx useEffect) --------------------------------
\* The effect body; only its first firing runs initializeChat, up to the
\* await of createChatSession.
EffectRunsAlways == TRUE
EffectRuns == isInitialLoad

MountEffect ==
  IF EffectRuns
     THEN \E res \in {"ok", "err"} :
            LET t == NewTask("init", "create", res, Null) IN
            /\ nextId < MaxOps
            /\ isInitialLoad' = FALSE
            /\ isLoading' = TRUE
            /\ chatSession' = createChatSession(chatSession, nextId + 1, res)
            /\ tasks' = tasks \cup {t}
            /\ nextId' = nextId + 1
            /\ ev' = Ev("mount", TRUE, TRUE, t)
            /\ UNCHANGED <<messages, input, chatSessionRef, lastTurn,
                 lastSess>>
     ELSE /\ ev' = Ev("mount", FALSE, FALSE, NoTask)
          /\ UNCHANGED <<messages, input, isLoading, chatSessionRef,
                         isInitialLoad, chatSession, tasks, nextId, lastTurn,
                 lastSess>>

\* the transcript initializeChat leaves
InitResultSilent(res) ==
  IF res = "ok" THEN <<Msg(AI, InitGreeting)>> ELSE <<>>
InitResult(res) ==
  IF res = "ok" THEN <<Msg(AI, InitGreeting)>> ELSE <<Msg(AI, InitErrorText)>>

\* initializeChat after the await: try / catch / finally
InitDone(t) ==
  /\ t \in tasks /\ t.kind = "init"
  /\ chatSessionRef' = IF t.res = "ok" THEN t.id ELSE chatSessionRef
  /\ messages' = InitResult(t.res)
  /\ isLoading' = FALSE
  /\ tasks' = tasks \ {t}
  /\ ev' = Ev("initDone", TRUE, FALSE, [t EXCEPT !.out = t.res])
  /\ UNCHANGED <<input, isInitialLoad, chatSession, nextId, lastTurn,
                 lastSess>>

\* ---- input control (onChange) -------------------------------------------
TypeInput(text) ==
  /\ Mounted
  /\ ~InputDisabled
  /\ text # input
  /\ input' = text
  /\ ev' = Ev("type", TRUE, FALSE, NoTask)
  /\ UNCHANGED <<messages, isLoading, chatSessionRef, isInitialLoad,
                 chatSession, tasks, nextId, lastTurn,
                 lastSess>>

\* an event on a disabled control is not dispatched to its handler
Dropped(op) ==
  /\ ev' = Ev(op, FALSE, FALSE, NoTask)
  /\ UNCHANGED <<messages, input, isLoading, chatSessionRef, isInitialLoad,
                 chatSession, tasks, nextId, lastTurn,
                 lastSess>>

\* ---- submit (handleSendMessage) ----------------------------------------
\* the early return of handleSendMessage
SendGuardNoTrim == input = <<>> \/ isLoading
SendGuard == Trim(input) = <<>> \/ isLoading

\* the userMessage of handleSendMessage
UserMessageRaw(text) == Msg(User, text)
UserMessage(text) == Msg(User, Trim(text))

\* setIsLoading(true) of handleSendMessage
BusyOnSubmitForgotten == FALSE
BusyOnSubmit == TRUE

\* handleSendMessage up to the await of sendMessage, which itself runs up
\* to the await of sendMessageStream (or throws for want of a session)
handleSendMessage(op) ==
  IF SendGuard
  THEN Dropped(op)
  ELSE LET t == NewTask("send", SendStartPc(chatSession), "none", chatSession) IN
       /\ nextId < MaxOps
       /\ messages' = Append(messages, UserMessage(input))
       /\ input' = <<>>
       /\ isLoading' = BusyOnSubmit
       /\ tasks' = tasks \cup {t}
       /\ nextId' = nextId + 1
       /\ ev' = Ev(op, TRUE, FALSE, t)
       /\ UNCHANGED <<chatSessionRef, isInitialLoad, chatSession, lastTurn,
                 lastSess>>

\* click on the Send button
ClickSend ==
  /\ Mounted
  /\ IF SendDisabled THEN Dropped("submit") ELSE handleSendMessage("submit")

\* Enter in the input (handleKeyPress)
PressEnter ==
  /\ Mounted
  /\ IF InputDisabled THEN Dropped("submit") ELSE handleSendMessage("submit")

\* finally of handleSendMessage
BusyAfterTurnStuck(out) == out # "ok"
BusyAfterTurn(out) == FALSE

\* sendMessage threw before streaming: catch and finally of handleSendMessage
SendThrew(t) ==
  /\ t \in tasks /\ t.kind = "send" /\ t.pc = "threw"
  /\ messages' = CatchUpdate(messages)
  /\ isLoading' = BusyAfterTurn("nosession")
  /\ tasks' = tasks \ {t}
  /\ lastTurn' = "nosession"
  /\ lastSess' = t.sess
  /\ ev' = Ev("sendDone", TRUE, FALSE, [t EXCEPT !.out = "nosession"])
  /\ UNCHANGED <<input, chatSessionRef, isInitialLoad, chatSession, nextId>>

\* one chunk of the stream: onChunkReceived is called when c.text is truthy
StreamChunk(t, text) ==
  /\ t \in tasks /\ t.kind = "send" /\ t.pc = "stream"
  /\ t.n < MaxChunks
  /\ LET full == IF text # <<>> THEN Accumulate(t.full, text) ELSE t.full
         t2 == [t EXCEPT !.n = t.n + 1, !.full = full,
                         !.frags = IF text # <<>> THEN Append(t.frags, text)
                                   ELSE t.frags]
     IN /\ messages' = IF text # <<>> THEN FoldChunk(messages, full)
                       ELSE messages
        /\ tasks' = (tasks \ {t}) \cup {t2}
        /\ ev' = Ev("chunk", text # <<>>, FALSE, t2)
  /\ UNCHANGED <<input, isLoading, chatSessionRef, isInitialLoad,
                 chatSession, nextId, lastTurn,
                 lastSess>>

\* the stream ends: sendMessage resolves, finally of handleSendMessage
StreamEnd(t) ==
  /\ t \in tasks /\ t.kind = "send" /\ t.pc = "stream"
  /\ isLoading' = BusyAfterTurn("ok")
  /\ tasks' = tasks \ {t}
  /\ lastTurn' = "ok"
  /\ lastSess' = t.sess
  /\ ev' = Ev("sendDone", TRUE, FALSE, [t EXCEPT !.out = "ok"])
  /\ UNCHANGED <<messages, input, chatSessionRef, isInitialLoad,
                 chatSession, nextId>>

\* sendMessageStream or the stream throws an Error with message m: catch
\* of sendMessage, then catch and finally of handleSendMessage
StreamFail(t, m) ==
  /\ t \in tasks /\ t.kind = "send" /\ t.pc = "stream"
  /\ LET full == Accumulate(t.full, ErrorFragment(m))
         out == IF IsSessionInvalid(m) THEN "invalid" ELSE "other"
     IN /\ chatSession' = SessionAfterError(chatSession, m)
        /\ messages' = CatchUpdate(FoldChunk(messages, full))
        /\ isLoading' = BusyAfterTurn(out)
        /\ tasks' = tasks \ {t}
        /\ lastTurn' = out
        /\ lastSess' = t.sess
        /\ ev' = Ev("sendDone", TRUE, FALSE,
                    [t EXCEPT !.out = out, !.full = full])
  /\ UNCHANGED <<input, chatSessionRef, isInitialLoad, nextId>>

\* ---- reset (handleClearChat) -------------------------------------------
\* handleClearChat up to the await of createChatSession
handleClearChat ==
  \E res \in {"ok", "err"} :
    LET t == NewTask("clear", "create", res, Null) IN
    /\ nextId < MaxOps
    /\ isLoading' = TRUE
    /\ messages' = <<>>
    /\ chatSession' = createChatSession(chatSession, nextId + 1, res)
    /\ tasks' = tasks \cup {t}
    /\ nextId' = nextId + 1
    /\ lastTurn' = "none"
    /\ lastSess' = Null
    /\ ev' = Ev("reset", TRUE, TRUE, t)
    /\ UNCHANGED <<input, chatSessionRef, isInitialLoad>>

\* click on the New Chat button
ClickNewChat ==
  /\ Mounted
  /\ IF NewChatDisabled THEN Dropped("reset") ELSE handleClearChat

\* the transcript handleClearChat leaves
ClearResultSilent(ms, res) ==
  IF res = "ok" THEN <<Msg(AI, ClearGreeting)>> ELSE ms
ClearResult(ms, res) ==
  IF res = "ok" THEN <<Msg(AI, ClearGreeting)>> ELSE <<Msg(AI, ClearErrorText)>>

\* handleClearChat after the await: try / catch / finally
ClearDone(t) ==
  /\ t \in tasks /\ t.kind = "clear"
  /\ chatSessionRef' = IF t.res = "ok" THEN t.id ELSE chatSessionRef
  /\ messages' = ClearResult(messages, t.res)
  /\ isLoading' = FALSE
  /\ tasks' = tasks \ {t}
  /\ ev' = Ev("resetDone", TRUE, FALSE, [t EXCEPT !.out = t.res])
  /\ UNCHANGED <<input, isInitialLoad, chatSession, nextId, lastTurn,
                 lastSess>>

\* ---- specification -----------------------------------------------------
Resume ==
  \E t \in tasks :
    \/ InitDone(t)
    \/ ClearDone(t)
    \/ SendThrew(t)
    \/ StreamEnd(t)
    \/ \E text \in ChunkTexts : StreamChunk(t, text)
    \/ \E m \in ErrorMessages : StreamFail(t, m)

Next ==
  \/ MountEffect
  \/ \E text \in Texts : TypeInput(text)
  \/ ClickSend
  \/ PressEnter
  \/ ClickNewChat
  \/ Resume

Spec == Init /\ [][Next]_vars

\* every suspended operation is resumed: the remote call answers and the
\* stream is finite
LiveSpec == Spec /\ WF_vars(Resume)

\* ---- properties --------------------------------------------------------
CountRole(ms, from, r) == Cardinality({i \in from..Len(ms) : ms[i].role = r})

RECURSIVE Concat(_)
Concat(fs) == IF fs = <<>> THEN <<>> ELSE Head(fs) \o Concat(Tail(fs))

\* the step that led here ended a turn (busy is back to false)
TurnDone == ev.op = "sendDone"

\* C1: between an accepted submit and the end of its turn the transcript
\* gains exactly one User message and at most one Assistant message, for
\* every outcome of the turn.
C1_OneUserAtMostOneAssistant ==
  TurnDone =>
    /\ CountRole(messages, ev.t.base + 1, User) = 1
    /\ CountRole(messages, ev.t.base + 1, AI) <= 1

\* C2: the submit that follows a turn ended by SessionInvalid, with no
\* reset in between, invokes createSession as part of the submit.
C2_SubmitRecreatesSession ==
  (ev.op = "submit" /\ ev.ok /\ ev.t.prev = "invalid") => ev.created

\* C3: when a turn has ended the transcript holds an Assistant message
\* after the User message of that turn.
C3_TurnAnswered ==
  TurnDone =>
    \E i \in (ev.t.base + 2)..Len(messages) : messages[i].role = AI

\* C4: a reset requested while busy is rejected: the transcript, the
\* session and the busy flag are left as they were.
C4_ResetRejectedWhileBusy ==
  [][(ev'.op = "reset" /\ isLoading) =>
       /\ ~ev'.ok
       /\ UNCHANGED <<messages, chatSession, chatSessionRef, isLoading,
                      tasks>>]_vars

C4_Witness ==
  ev.op = "reset" /\ ~ev.ok /\ isLoading /\ Sends # {}

\* C5: after createSession has failed, at initialization or in a reset,
\* the Session Manager holds no session.
C5_NoSessionAfterFailedCreate ==
  (ev.op \in {"initDone", "resetDone"} /\ ev.t.out = "err") =>
    chatSession = Null

\* C6: a submit with blank text, or while busy, changes nothing: the
\* transcript, the busy flag, the input, the session and the outstanding
\* sends are as before.
C6_SubmitNoOp ==
  [][(ev'.op = "submit" /\ (Trim(input) = <<>> \/ isLoading)) =>
       /\ ~ev'.ok
       /\ UNCHANGED <<messages, isLoading, input, chatSession,
                      chatSessionRef, tasks>>]_vars

C6_Witness ==
  ev.op = "submit" /\ ~ev.ok /\ isLoading /\ Sends # {}

\* C7: at most one send is outstanding, busy is true while it is, and a
\* fragment is folded into the pending message of that one turn.
C7_SingleSend ==
  /\ Cardinality(Sends) <= 1
  /\ Sends # {} => isLoading
  /\ (ev.op = "chunk" /\ ev.ok) =>
       /\ Sends = {ev.t}
       /\ Len(messages) = ev.t.base + 2
       /\ messages[ev.t.base + 1].role = User
       /\ messages[ev.t.base + 2] = Msg(AI, ev.t.full)

C7_Witness ==
  ev.op = "chunk" /\ ev.ok /\ ev.t.prev # "none" /\ Len(ev.t.frags) = 2

\* C8: a stream that delivers fragments f1..fn, n >= 1, and ends normally
\* leaves the transcript two longer than before the submit, its last
\* message the Assistant message f1 + ... + fn, and busy false.
C8_ReplyIsConcatenation ==
  (TurnDone /\ ev.t.out = "ok" /\ Len(ev.t.frags) >= 1) =>
    /\ Len(messages) = ev.t.base + 2
    /\ messages[Len(messages)] = Msg(AI, Concat(ev.t.frags))
    /\ ~isLoading

C8_Witness ==
  TurnDone /\ ev.t.out = "ok" /\ ev.t.frags = << <<"Hel">>, <<"lo">> >>

\* C9: busy never stays true: every operation that sets it clears it.
C9_BusyClears == isLoading ~> ~isLoading

C9_Witness ==
  TurnDone /\ ev.t.out = "invalid" /\ ev.t.frags # <<>> /\ ~isLoading

\* C10: when a reset has completed the transcript is exactly one Assistant
\* message, the greeting on success and the error text on failure, and
\* busy is false.
C10_ResetLeavesOneMessage ==
  ev.op = "resetDone" =>
    /\ Len(messages) = 1
    /\ messages[1].role = AI
    /\ messages[1].content =
         IF ev.t.out = "ok" THEN ClearGreeting ELSE ClearErrorText
    /\ ~isLoading

C10_Witness ==
  ev.op = "resetDone" /\ ev.t.out = "err" /\ ev.t.base > 1

\* a is a prefix of b
IsPrefix(a, b) == Len(a) <= Len(b) /\ SubSeq(b, 1, Len(a)) = a

\* the step that led here ended a send that had reached the remote and failed
StreamFailed == TurnDone /\ ev.t.out \in {"invalid", "other"}

\* the step that led here is an accepted submit
Submitted == ev.op = "submit" /\ ev.ok

\* C11: a send that fails leaves the session absent exactly when the
\* failure is SessionInvalid; after a StreamFailure the session of the
\* failed send is retained and the next submit is sent on it.
C11_SessionDroppedIffInvalid ==
  /\ StreamFailed =>
       /\ (chatSession = Null) <=> (ev.t.out = "invalid")
       /\ ev.t.out = "other" => chatSession = ev.t.sess
  /\ (Submitted /\ ev.t.prev = "other") =>
       /\ ev.t.pc = "stream"
       /\ ev.t.sess # Null
       /\ ev.t.sess = ev.t.prevSess

C11_Witness ==
  Submitted /\ ev.t.prev = "other" /\ ev.t.sess = 1

\* C12 (as claimed): an accepted submit appends, in the step of the call,
\* one User message carrying the submitted text and sets busy.
C12_AppendsSubmittedText ==
  [][(ev'.op = "submit" /\ ev'.ok) =>
       /\ messages' = Append(messages, Msg(User, input))
       /\ isLoading']_vars

\* C12 (amended): an accepted submit appends, in the step of the call and
\* before any fragment or error of the turn, one User message carrying the
\* submitted text without its leading and trailing whitespace, and sets
\* busy; no existing message changes.
C12_AppendsTrimmedText ==
  [][(ev'.op = "submit" /\ ev'.ok) =>
       /\ ~isLoading /\ TrimEnd(TrimStart(input)) # <<>>
       /\ messages' = Append(messages, Msg(User, TrimEnd(TrimStart(input))))
       /\ isLoading'
       /\ ev'.t \in tasks' /\ ev'.t.full = <<>> /\ ev'.t.n = 0]_vars

C12_Witness ==
  /\ Submitted
  /\ Len(messages) = 4
  /\ messages[4] = Msg(User, <<"h">>)
  /\ isLoading

\* C13: a submit made while the session is absent ends with exactly one
\* error Assistant message after the User message of the turn, busy false.
C13_NoSessionOneError ==
  (TurnDone /\ ev.t.out = "nosession") =>
    /\ Len(messages) = ev.t.base + 2
    /\ messages[ev.t.base + 1].role = User
    /\ messages[ev.t.base + 2] = Msg(AI, GenericErrorText)
    /\ chatSession = Null
    /\ ~isLoading

C13_Witness ==
  TurnDone /\ ev.t.out = "nosession" /\ ev.t.prev = "invalid"

\* C14: when initialization has completed the transcript is exactly one
\* Assistant message (greeting or configuration error), busy is false and
\* the session is present exactly when createSession succeeded; no submit
\* is accepted before that.
C14_InitSeedsTranscript ==
  /\ ev.op = "initDone" =>
       /\ Len(messages) = 1
       /\ messages[1].role = AI
       /\ messages[1].content =
            IF ev.t.out = "ok" THEN InitGreeting ELSE InitErrorText
       /\ ~isLoading
       /\ (chatSession # Null) <=> (ev.t.out = "ok")
  /\ Submitted =>
       /\ ~isInitialLoad
       /\ \A t \in tasks : t.kind # "init"
       /\ ev.t.base >= 1

C14_Witness ==
  ev.op = "initDone" /\ ev.t.out = "err" /\ chatSession = Null

\* C15: whenever sendMessage fails, it has handed an error text to
\* onFragment before the error reaches the caller.
C15_ErrorFragmentDelivered ==
  (TurnDone /\ ev.t.out # "ok") =>
    Len(ev.t.full) > Len(Concat(ev.t.frags))

\* C16: applying a fragment changes only the pending Assistant message of
\* the current turn, whose new content extends its previous content.
C16_FragmentTouchesTailOnly ==
  [][(ev'.op = "chunk" \/ (ev'.op = "sendDone" /\ ev'.t.pc = "stream")) =>
       LET b == ev'.t.base IN
       /\ Len(messages) >= b + 1
       /\ SubSeq(messages', 1, b + 1) = SubSeq(messages, 1, b + 1)
       /\ Len(messages) = b + 2 =>
            /\ Len(messages') >= b + 2
            /\ messages'[b + 2].role = AI
            /\ IsPrefix(messages[b + 2].content, messages'[b + 2].content)]_vars

C16_Witness ==
  /\ ev.op = "chunk" /\ ev.ok
  /\ Len(ev.t.frags) = 2
  /\ ev.t.base >= 3

\* the transcript starts with the message a reset left
AfterReset(ms) ==
  Len(ms) >= 1 /\ ms[1].content \in {ClearGreeting, ClearErrorText}

\* C17: no send is outstanding when a reset starts, and nothing a send
\* applies afterwards touches the message the reset left.
C17_ResetNotOverwritten ==
  [][/\ (ev'.op = "reset" /\ ev'.ok) => Sends = {}
     /\ \A t \in Sends : \A c \in tasks : c.kind # "clear"
     /\ (AfterReset(messages) /\ ev'.op \in {"chunk", "sendDone", "submit"}) =>
          /\ messages'[1] = messages[1]
          /\ ev'.op # "submit" => ev'.t.base >= 1]_vars

C17_Witness ==
  ev.op = "chunk" /\ ev.ok /\ AfterReset(messages) /\ Len(messages) = 3

\* C18: whenever no operation is in flight, the controller's session
\* reference and the Session Manager's session agree.
C18_SessionRefsAgree ==
  (tasks = {} /\ ~isLoading) => chatSessionRef = chatSession

\* C19: initialization runs at most once: a further firing of the mount
\* effect creates no session and leaves the transcript alone.
C19_InitOnce ==
  [][/\ (ev'.op = "mount" /\ ~isInitialLoad) =>
          /\ ~ev'.ok /\ ~ev'.created
          /\ UNCHANGED <<messages, chatSession, chatSessionRef, isLoading,
                         tasks, nextId>>
     /\ ev'.t.kind = "init" => ev'.t.id = 1]_vars

C19_Witness ==
  ev.op = "mount" /\ ~ev.ok /\ Len(messages) >= 3 /\ chatSession # Null
====
